---- MODULE Spec2Model ----
(***************************************************************************)
(* Model of the question actions of src/app/(root)/community/page.tsx      *)
(* (getQuestions, createQuestion, upvoteQuestion, downvoteQuestion,        *)
(* deleteQuestion, editQuestion, getRecommendedQuestions) and of the route *)
(* middleware of src/middleware.ts.                                        *)
(*                                                                         *)
(* The database is five collections (Question, Tag, User, Answer,          *)
(* Interaction).  Every action is a sequence of awaited database calls;    *)
(* each call is one step of the model, and each may reject, in which case  *)
(* the catch block rethrows and the rest of the action is skipped.  The    *)
(* server runs several actions at once: the steps of the calls in progress *)
(* interleave, and nothing but the single database call is atomic.         *)
(*                                                                         *)
(* Strings that reach a regular expression (tag names, titles, contents,   *)
(* search texts) are sequences of one-character strings, so that the       *)
(* expression built from them is matched as the engine matches it.         *)
(***************************************************************************)
EXTENDS Integers, Sequences, FiniteSets, TLC

VARIABLES
  questions,     \* Question collection: _id -> document
  tags,          \* Tag collection: _id -> document
  answers,       \* Answer collection: _id -> document
  interactions,  \* Interaction collection: _id -> document
  users,         \* User collection: _id -> document
  nextId,        \* fresh _id per collection (ObjectIds are never reused)
  pc,            \* per call slot: position of the call in progress, or "idle"
  cur,           \* per call slot: parameters and locals of the call in progress
  outcome,       \* per call slot: how its last call ended: "none", "ok" or the error
  result,        \* per call slot: value returned by its last read action
  revalidated,   \* paths passed to revalidatePath so far
  pre,           \* history, per call slot: the database when its call started
  hist,          \* history: calls made, failures and overlaps seen, votes cast
  request        \* last HTTP request seen by the middleware and what became of it

vars == <<questions, tags, answers, interactions, users, nextId, pc, cur, outcome,
          result, revalidated, pre, hist, request>>

db == <<questions, tags, answers, interactions, users, nextId>>

----------------------------------------------------------------------------
(* Bounds of the model *)

MaxCalls == 2
MaxVoteCalls == 2
MaxFaithfulVotes == 3
MaxReadCalls == 2
MaxPage == 2
MaxPageSize == 2

----------------------------------------------------------------------------
(* Small helpers on sequences *)

Range(s) == {s[i] : i \in 1..Len(s)}

RECURSIVE Without(_, _)
\* $pull: every occurrence of x removed from the array s
Without(s, x) ==
  IF s = <<>> THEN <<>>
  ELSE IF Head(s) = x THEN Without(Tail(s), x)
       ELSE <<Head(s)>> \o Without(Tail(s), x)

\* $addToSet: x appended unless the array holds it already
AddToSet(s, x) == IF x \in Range(s) THEN s ELSE Append(s, x)

Min(a, b) == IF a < b THEN a ELSE b

----------------------------------------------------------------------------
(* Regular expressions, as new RegExp(source, 'i') and $regex/$options:'i'  *)
(* treat the characters of the model's alphabet: letters are literals that  *)
(* match either case, "." matches any character, "+" repeats the atom       *)
(* before it one or more times.                                             *)

Lower(c) == CASE c = "R" -> "r" [] c = "C" -> "c" [] OTHER -> c

\* The pattern compiles: a "+" needs an atom before it ("Nothing to repeat").
ValidRegex(p) ==
  \A i \in 1..Len(p) : p[i] = "+" => (i > 1 /\ p[i-1] # "+")

AtomMatches(a, ch) == a = "." \/ Lower(a) = Lower(ch)

RECURSIVE MatchHere(_, _)
\* pattern p matches the whole of s
MatchHere(p, s) ==
  IF p = <<>> THEN s = <<>>
  ELSE IF Len(p) >= 2 /\ p[2] = "+"
       THEN /\ s # <<>>
            /\ AtomMatches(p[1], Head(s))
            /\ (MatchHere(Tail(Tail(p)), Tail(s)) \/ MatchHere(p, Tail(s)))
       ELSE /\ s # <<>>
            /\ AtomMatches(p[1], Head(s))
            /\ MatchHere(Tail(p), Tail(s))

\* new RegExp(`^${tag}$`, 'i') tested against a stored tag name
TagRegexMatches(tag, name) == MatchHere(tag, name)

\* an unanchored, case-insensitive pattern found somewhere in s
RegexSearch(p, s) ==
  \E i \in 1..(Len(s) + 1) : \E j \in (i-1)..Len(s) : MatchHere(p, SubSeq(s, i, j))

----------------------------------------------------------------------------
(* Documents and inputs *)

Users == {"u1", "u2"}

\* clerkId of each stored user (User documents are created outside this file)
ClerkIdOf(u) == IF u = "u1" THEN "clerk_u1" ELSE "clerk_u2"

ClerkIds == {"clerk_u1", "clerk_u2", "clerk_none"}

Rust == <<"R", "u", "s", "t">>
rust == <<"r", "u", "s", "t">>
cplus == <<"c", "+">>
Cplus == <<"C", "+">>
plus == <<"+">>

TagLists == {<<rust, cplus>>, <<Cplus>>, <<rust, plus>>}

Searches == {<<>>, <<"c", "+">>, <<"+">>}
Filters == {"newest", "frequent", "unanswered", "recommended"}

\* The calls the server has in progress at one time: each holds one slot.
Procs == {1, 2}

ReadOps == {"getQuestions", "getRecommendedQuestions"}

NoCall == [op |-> "none"]
NoResult == [op |-> "none"]
NoSnapshot == [op |-> "none"]
NoRequest == [path |-> <<>>, signedIn |-> FALSE, response |-> "none"]

IsError(o) == o \notin {"none", "ok"}

Snapshot == [questions |-> questions, tags |-> tags, answers |-> answers,
             interactions |-> interactions, users |-> users]

\* the state of the calls and of the history before any call
NoCalls ==
  /\ pc = [p \in Procs |-> "idle"]
  /\ cur = [p \in Procs |-> NoCall]
  /\ outcome = [p \in Procs |-> "none"]
  /\ result = [p \in Procs |-> NoResult]
  /\ revalidated = {}
  /\ pre = [p \in Procs |-> NoSnapshot]
  /\ hist = [calls |-> 0, failed |-> FALSE, overlapped |-> FALSE,
             alone |-> [p \in Procs |-> TRUE], read |-> FALSE,
             faithful |-> TRUE, voters |-> {}]
  /\ request = NoRequest

\* The database holds one question, asked by u1 with tag "Rust" and answered once:
\* the state createQuestion leaves from an empty database, plus one answer.
Init ==
  /\ questions = (1 :> [title |-> <<"r">>, content |-> <<"u">>, author |-> "u1",
                        tags |-> <<1>>, upvotes |-> <<>>, downvotes |-> <<>>,
                        answers |-> <<1>>, views |-> 0])
  /\ tags = <<[name |-> Rust, questions |-> <<1>>]>>
  /\ answers = (1 :> [question |-> 1, author |-> "u2"])
  /\ interactions = (1 :> [user |-> "u1", action |-> "ask_question", question |-> 1,
                           tags |-> <<1>>])
  /\ users = [u \in Users |->
                [clerkId |-> ClerkIdOf(u), reputation |-> IF u = "u1" THEN 5 ELSE 0]]
  /\ nextId = [question |-> 2, answer |-> 2, interaction |-> 2]
  /\ NoCalls

\* some other call is in progress
OthersBusy(p) == \E o \in Procs \ {p} : pc[o] # "idle"

\* history kept when the call of slot p starts: one more call; whether it started
\* while another was in progress; no slot has had the database to itself since
Started(p, faithfulCall, voters, isRead) ==
  [hist EXCEPT !.calls = @ + 1,
               !.overlapped = @ \/ OthersBusy(p),
               !.alone = [o \in Procs |-> o = p /\ ~OthersBusy(p)],
               !.read = @ \/ isRead,
               !.faithful = @ /\ faithfulCall,
               !.voters = @ \cup voters]

\* A call arrives and runs up to its first await: it takes the lowest free slot
\* (slots are interchangeable), whatever the other calls in progress are doing.
Begin(p, call, nextPc, faithfulCall, voters) ==
  /\ pc[p] = "idle"
  /\ \A o \in Procs : o < p => pc[o] # "idle"
  /\ pc' = [pc EXCEPT ![p] = nextPc]
  /\ cur' = [cur EXCEPT ![p] = call]
  /\ outcome' = [outcome EXCEPT ![p] = "none"]
  /\ result' = [result EXCEPT ![p] = NoResult]
  /\ pre' = [pre EXCEPT ![p] = Snapshot]
  /\ hist' = Started(p, faithfulCall, voters, call.op \in ReadOps)
  /\ UNCHANGED <<db, revalidated, request>>

\* the catch block: console.log(error); throw error
Throw(p, error) ==
  /\ pc' = [pc EXCEPT ![p] = "idle"]
  /\ cur' = [cur EXCEPT ![p] = NoCall]
  /\ outcome' = [outcome EXCEPT ![p] = error]
  /\ pre' = [pre EXCEPT ![p] = NoSnapshot]
  /\ hist' = [hist EXCEPT !.failed = TRUE]
  /\ UNCHANGED <<db, result, revalidated, request>>

\* revalidatePath(path), the last statement of every mutating action
Revalidate(p) ==
  /\ pc[p] \in {"cq_revalidate", "vote_revalidate", "dq_revalidate", "eq_revalidate"}
  /\ revalidated' = revalidated \cup {cur[p].path}
  /\ pc' = [pc EXCEPT ![p] = "idle"]
  /\ cur' = [cur EXCEPT ![p] = NoCall]
  /\ outcome' = [outcome EXCEPT ![p] = "ok"]
  /\ pre' = [pre EXCEPT ![p] = NoSnapshot]
  /\ UNCHANGED <<db, result, hist, request>>

\* the positions at which a call awaits the database
DbCallPcs == {"cq_create", "cq_tag", "cq_link", "cq_interaction", "cq_reputation",
              "vote_update", "vote_actor", "vote_author",
              "dq_question", "dq_answers", "dq_interactions", "dq_tags",
              "eq_find", "eq_save",
              "gq_find", "gq_count",
              "gr_connect", "gr_user", "gr_interactions", "gr_count", "gr_find"}

\* an awaited database call rejects (connection lost, server error)
DbFailure(p) ==
  /\ pc[p] \in DbCallPcs
  /\ Throw(p, "MongoError")

----------------------------------------------------------------------------
(* upvoteQuestion and downvoteQuestion *)

\* the three-way branch that builds updateQuery, applied to the question
UpvoteUpdate(doc, userId, hasupVoted, hasdownVoted) ==
  IF hasupVoted
  THEN [doc EXCEPT !.upvotes = Without(@, userId)]
  ELSE IF hasdownVoted
       THEN [doc EXCEPT !.downvotes = Without(@, userId),
                        !.upvotes = Append(@, userId)]
       ELSE [doc EXCEPT !.upvotes = AddToSet(@, userId)]

DownvoteUpdate(doc, userId, hasupVoted, hasdownVoted) ==
  IF hasdownVoted
  THEN [doc EXCEPT !.downvotes = Without(@, userId)]
  ELSE IF hasupVoted
       THEN [doc EXCEPT !.upvotes = Without(@, userId),
                        !.downvotes = Append(@, userId)]
       ELSE [doc EXCEPT !.downvotes = AddToSet(@, userId)]

UpvoteActorDelta(hasupVoted) == IF hasupVoted THEN -1 ELSE 1
UpvoteAuthorDelta(hasupVoted) == IF hasupVoted THEN -10 ELSE 10
DownvoteActorDelta(hasdownVoted) == IF hasdownVoted THEN -2 ELSE 2
DownvoteAuthorDelta(hasdownVoted) == IF hasdownVoted THEN -10 ELSE 10

\* the vote a user holds on a stored question, as the arrays record it
HasUp(doc, u) == u \in Range(doc.upvotes)
HasDown(doc, u) == u \in Range(doc.downvotes)

\* history only: the flags of the call agree with the stored vote
FlagsMatch(questionId, userId, hasupVoted, hasdownVoted) ==
  /\ questionId \in DOMAIN questions
  /\ hasupVoted = HasUp(questions[questionId], userId)
  /\ hasdownVoted = HasDown(questions[questionId], userId)

VoteCall(op, questionId, userId, hasupVoted, hasdownVoted, path) ==
  [op |-> op, questionId |-> questionId, userId |-> userId,
   hasupVoted |-> hasupVoted, hasdownVoted |-> hasdownVoted, path |-> path,
   author |-> "none"]

upvoteQuestion(p, questionId, userId, hasupVoted, hasdownVoted, path) ==
  Begin(p, VoteCall("upvote", questionId, userId, hasupVoted, hasdownVoted, path),
        "vote_update",
        FlagsMatch(questionId, userId, hasupVoted, hasdownVoted), {userId})

downvoteQuestion(p, questionId, userId, hasupVoted, hasdownVoted, path) ==
  Begin(p, VoteCall("downvote", questionId, userId, hasupVoted, hasdownVoted, path),
        "vote_update",
        FlagsMatch(questionId, userId, hasupVoted, hasdownVoted), {userId})

\* Question.findByIdAndUpdate(questionId, updateQuery, {new: true}) found nothing
QuestionMissing(questionId) == questionId \notin DOMAIN questions

\* VoteUpdate without the check `if (!question) throw`: the action carries on
VoteUpdateUnchecked(p) ==
  /\ pc[p] = "vote_update"
  /\ questions' =
       [q \in DOMAIN questions |->
          IF q # cur[p].questionId THEN questions[q]
          ELSE IF cur[p].op = "upvote"
               THEN UpvoteUpdate(questions[q], cur[p].userId, cur[p].hasupVoted,
                                 cur[p].hasdownVoted)
               ELSE DownvoteUpdate(questions[q], cur[p].userId, cur[p].hasupVoted,
                                   cur[p].hasdownVoted)]
  /\ cur' = [cur EXCEPT ![p].author =
               IF QuestionMissing(cur[p].questionId) THEN "none"
               ELSE questions[cur[p].questionId].author]
  /\ pc' = [pc EXCEPT ![p] = "vote_actor"]
  /\ UNCHANGED <<tags, answers, interactions, users, nextId, outcome, result,
                 revalidated, pre, hist, request>>

\* Question.findByIdAndUpdate(...); if (!question) throw new Error(...)
VoteUpdate(p) ==
  /\ pc[p] = "vote_update"
  /\ IF QuestionMissing(cur[p].questionId)
     THEN Throw(p, "Question not found")
     ELSE /\ questions' =
               [questions EXCEPT ![cur[p].questionId] =
                  IF cur[p].op = "upvote"
                  THEN UpvoteUpdate(@, cur[p].userId, cur[p].hasupVoted,
                                    cur[p].hasdownVoted)
                  ELSE DownvoteUpdate(@, cur[p].userId, cur[p].hasupVoted,
                                      cur[p].hasdownVoted)]
          /\ cur' = [cur EXCEPT ![p].author = questions[cur[p].questionId].author]
          /\ pc' = [pc EXCEPT ![p] = "vote_actor"]
          /\ UNCHANGED <<tags, answers, interactions, users, nextId, outcome, result,
                         revalidated, pre, hist, request>>

\* User.findByIdAndUpdate(id, {$inc: {reputation: n}}); an unknown id updates nothing
IncReputation(id, n) ==
  [u \in DOMAIN users |->
     IF u = id THEN [users[u] EXCEPT !.reputation = @ + n] ELSE users[u]]

\* User.findByIdAndUpdate(userId, {$inc: {reputation: ...}})
VoteActor(p) ==
  /\ pc[p] = "vote_actor"
  /\ users' = IncReputation(cur[p].userId,
                 IF cur[p].op = "upvote" THEN UpvoteActorDelta(cur[p].hasupVoted)
                 ELSE DownvoteActorDelta(cur[p].hasdownVoted))
  /\ pc' = [pc EXCEPT ![p] = "vote_author"]
  /\ UNCHANGED <<questions, tags, answers, interactions, nextId, cur, outcome, result,
                 revalidated, pre, hist, request>>

\* User.findByIdAndUpdate(question.author, {$inc: {reputation: ...}})
VoteAuthor(p) ==
  /\ pc[p] = "vote_author"
  /\ users' = IncReputation(cur[p].author,
                 IF cur[p].op = "upvote" THEN UpvoteAuthorDelta(cur[p].hasupVoted)
                 ELSE DownvoteAuthorDelta(cur[p].hasdownVoted))
  /\ pc' = [pc EXCEPT ![p] = "vote_revalidate"]
  /\ UNCHANGED <<questions, tags, answers, interactions, nextId, cur, outcome, result,
                 revalidated, pre, hist, request>>

----------------------------------------------------------------------------
(* createQuestion *)

\* the Tag documents the filter {name: {$regex: new RegExp(`^${tag}$`, 'i')}} selects
MatchingTags(tag) == {t \in DOMAIN tags : TagRegexMatches(tag, tags[t].name)}

\* findOneAndUpdate updates the first document the filter selects
FirstOf(S) == CHOOSE t \in S : \A o \in S : t <= o

\* Tag.findOneAndUpdate(filter, {$setOnInsert: {name: tag}, $push: {questions: id}},
\*                      {upsert: true, new: true}): the collection afterwards
UpsertTag(tag, questionId) ==
  IF MatchingTags(tag) # {}
  THEN [tags EXCEPT ![FirstOf(MatchingTags(tag))].questions = Append(@, questionId)]
  ELSE Append(tags, [name |-> tag, questions |-> <<questionId>>])

\* the _id of the document findOneAndUpdate returns
UpsertTagId(tag) ==
  IF MatchingTags(tag) # {} THEN FirstOf(MatchingTags(tag)) ELSE Len(tags) + 1

createQuestion(p, title, content, tagNames, author, path) ==
  Begin(p, [op |-> "createQuestion", title |-> title, content |-> content,
            tags |-> tagNames, author |-> author, path |-> path,
            question |-> 0, i |-> 1, tagDocuments |-> <<>>],
        "cq_create", TRUE, {})

\* const question = await Question.create({title, content, author})
CreateQuestionDoc(p) ==
  /\ pc[p] = "cq_create"
  /\ questions' = questions @@
       (nextId.question :>
          [title |-> cur[p].title, content |-> cur[p].content,
           author |-> cur[p].author, tags |-> <<>>, upvotes |-> <<>>,
           downvotes |-> <<>>, answers |-> <<>>, views |-> 0])
  /\ nextId' = [nextId EXCEPT !.question = @ + 1]
  /\ cur' = [cur EXCEPT ![p].question = nextId.question]
  /\ pc' = [pc EXCEPT ![p] = IF cur[p].tags = <<>> THEN "cq_link" ELSE "cq_tag"]
  /\ UNCHANGED <<tags, answers, interactions, users, outcome, result, revalidated,
                 pre, hist, request>>

\* one iteration of: for (const tag of tags) { ... Tag.findOneAndUpdate ... }
CreateQuestionTag(p) ==
  /\ pc[p] = "cq_tag"
  /\ LET tag == cur[p].tags[cur[p].i] IN
     IF ~ValidRegex(tag)
     THEN Throw(p, "SyntaxError")     \* new RegExp(...) throws
     ELSE /\ tags' = UpsertTag(tag, cur[p].question)
          /\ cur' = [cur EXCEPT ![p].tagDocuments = Append(@, UpsertTagId(tag)),
                                ![p].i = @ + 1]
          /\ pc' = [pc EXCEPT ![p] = IF cur[p].i = Len(cur[p].tags) THEN "cq_link"
                                     ELSE "cq_tag"]
          /\ UNCHANGED <<questions, answers, interactions, users, nextId, outcome,
                         result, revalidated, pre, hist, request>>

\* Question.findByIdAndUpdate(question._id, {$push: {tags: {$each: tagDocuments}}});
\* an _id that matches no document any more updates nothing
CreateQuestionLink(p) ==
  /\ pc[p] = "cq_link"
  /\ questions' =
       [q \in DOMAIN questions |->
          IF q = cur[p].question
          THEN [questions[q] EXCEPT !.tags = @ \o cur[p].tagDocuments]
          ELSE questions[q]]
  /\ pc' = [pc EXCEPT ![p] = "cq_interaction"]
  /\ UNCHANGED <<tags, answers, interactions, users, nextId, cur, outcome, result,
                 revalidated, pre, hist, request>>

\* Interaction.create({user: author, action: 'ask_question', question, tags})
CreateQuestionInteraction(p) ==
  /\ pc[p] = "cq_interaction"
  /\ interactions' = interactions @@
       (nextId.interaction :>
          [user |-> cur[p].author, action |-> "ask_question",
           question |-> cur[p].question, tags |-> cur[p].tagDocuments])
  /\ nextId' = [nextId EXCEPT !.interaction = @ + 1]
  /\ pc' = [pc EXCEPT ![p] = "cq_reputation"]
  /\ UNCHANGED <<questions, tags, answers, users, cur, outcome, result, revalidated,
                 pre, hist, request>>

\* User.findByIdAndUpdate(author, {$inc: {reputation: 5}})
CreateQuestionReputation(p) ==
  /\ pc[p] = "cq_reputation"
  /\ users' = IncReputation(cur[p].author, 5)
  /\ pc' = [pc EXCEPT ![p] = "cq_revalidate"]
  /\ UNCHANGED <<questions, tags, answers, interactions, nextId, cur, outcome, result,
                 revalidated, pre, hist, request>>

----------------------------------------------------------------------------
(* deleteQuestion *)

deleteQuestion(p, questionId, path) ==
  Begin(p, [op |-> "deleteQuestion", questionId |-> questionId, path |-> path],
        "dq_question", TRUE, {})

\* the documents of a collection that satisfy keep
Restrict(coll, keep(_)) == [k \in {x \in DOMAIN coll : keep(coll[x])} |-> coll[k]]

\* Question.deleteOne({_id: questionId})
DeleteQuestionDoc(p) ==
  /\ pc[p] = "dq_question"
  /\ questions' = [q \in DOMAIN questions \ {cur[p].questionId} |-> questions[q]]
  /\ pc' = [pc EXCEPT ![p] = "dq_answers"]
  /\ UNCHANGED <<tags, answers, interactions, users, nextId, cur, outcome, result,
                 revalidated, pre, hist, request>>

\* DeleteQuestionAnswers with the deleteMany forgotten
DeleteQuestionAnswersSkipped(p) ==
  /\ pc[p] = "dq_answers"
  /\ pc' = [pc EXCEPT ![p] = "dq_interactions"]
  /\ UNCHANGED <<db, cur, outcome, result, revalidated, pre, hist, request>>

\* Answer.deleteMany({question: questionId})
DeleteQuestionAnswers(p) ==
  /\ pc[p] = "dq_answers"
  /\ answers' = Restrict(answers, LAMBDA a : a.question # cur[p].questionId)
  /\ pc' = [pc EXCEPT ![p] = "dq_interactions"]
  /\ UNCHANGED <<questions, tags, interactions, users, nextId, cur, outcome, result,
                 revalidated, pre, hist, request>>

\* Interaction.deleteMany({question: questionId})
DeleteQuestionInteractions(p) ==
  /\ pc[p] = "dq_interactions"
  /\ interactions' = Restrict(interactions, LAMBDA i : i.question # cur[p].questionId)
  /\ pc' = [pc EXCEPT ![p] = "dq_tags"]
  /\ UNCHANGED <<questions, tags, answers, users, nextId, cur, outcome, result,
                 revalidated, pre, hist, request>>

\* DeleteQuestionTags as updateOne: only the first tag that lists the question
DeleteQuestionTagsFirstOnly(p) ==
  /\ pc[p] = "dq_tags"
  /\ LET listing == {t \in DOMAIN tags : cur[p].questionId \in Range(tags[t].questions)}
     IN tags' = [t \in DOMAIN tags |->
                   IF listing # {} /\ t = FirstOf(listing)
                   THEN [tags[t] EXCEPT !.questions = Without(@, cur[p].questionId)]
                   ELSE tags[t]]
  /\ pc' = [pc EXCEPT ![p] = "dq_revalidate"]
  /\ UNCHANGED <<questions, answers, interactions, users, nextId, cur, outcome, result,
                 revalidated, pre, hist, request>>

\* Tag.updateMany({questions: questionId}, {$pull: {questions: questionId}})
DeleteQuestionTags(p) ==
  /\ pc[p] = "dq_tags"
  /\ tags' = [t \in DOMAIN tags |->
                [tags[t] EXCEPT !.questions = Without(@, cur[p].questionId)]]
  /\ pc' = [pc EXCEPT ![p] = "dq_revalidate"]
  /\ UNCHANGED <<questions, answers, interactions, users, nextId, cur, outcome, result,
                 revalidated, pre, hist, request>>

----------------------------------------------------------------------------
(* editQuestion *)

editQuestion(p, questionId, title, content, path) ==
  Begin(p, [op |-> "editQuestion", questionId |-> questionId, title |-> title,
            content |-> content, path |-> path, loaded |-> NoCall],
        "eq_find", TRUE, {})

\* const question = await Question.findById(questionId).populate('tags');
\* if (!question) throw new Error('Question not found')
EditQuestionFind(p) ==
  /\ pc[p] = "eq_find"
  /\ IF QuestionMissing(cur[p].questionId)
     THEN Throw(p, "Question not found")
     ELSE /\ cur' = [cur EXCEPT ![p].loaded = questions[cur[p].questionId]]
          /\ pc' = [pc EXCEPT ![p] = "eq_save"]
          /\ UNCHANGED <<db, outcome, result, revalidated, pre, hist, request>>

\* question.title = title; question.content = content; await question.save():
\* save() writes the paths whose value differs from the loaded document, and
\* rejects when the document has been deleted since it was loaded
EditQuestionSave(p) ==
  /\ pc[p] = "eq_save"
  /\ IF QuestionMissing(cur[p].questionId)
     THEN Throw(p, "DocumentNotFoundError")
     ELSE /\ questions' = [questions EXCEPT
               ![cur[p].questionId].title =
                  IF cur[p].title # cur[p].loaded.title THEN cur[p].title ELSE @,
               ![cur[p].questionId].content =
                  IF cur[p].content # cur[p].loaded.content THEN cur[p].content ELSE @]
          /\ pc' = [pc EXCEPT ![p] = "eq_revalidate"]
          /\ UNCHANGED <<tags, answers, interactions, users, nextId, cur, outcome,
                         result, revalidated, pre, hist, request>>

----------------------------------------------------------------------------
(* Answers are created by the answer actions, which are not part of these   *)
(* files: an Answer belongs to a question and is listed in its answers.     *)

createAnswer(p, questionId, author) ==
  /\ pc[p] = "idle"
  /\ \A o \in Procs : o < p => pc[o] # "idle"
  /\ questionId \in DOMAIN questions
  /\ answers' = answers @@
       (nextId.answer :> [question |-> questionId, author |-> author])
  /\ questions' = [questions EXCEPT ![questionId].answers = Append(@, nextId.answer)]
  /\ nextId' = [nextId EXCEPT !.answer = @ + 1]
  /\ hist' = Started(p, TRUE, {}, FALSE)
  /\ outcome' = [outcome EXCEPT ![p] = "ok"]
  /\ result' = [result EXCEPT ![p] = NoResult]
  /\ UNCHANGED <<tags, interactions, users, pc, cur, revalidated, pre, request>>

----------------------------------------------------------------------------
(* getQuestions and getRecommendedQuestions *)

RECURSIVE Ascending(_)
\* the ids of S in insertion (natural) order
Ascending(S) ==
  IF S = {} THEN <<>>
  ELSE LET m == CHOOSE x \in S : \A y \in S : x <= y
       IN <<m>> \o Ascending(S \ {m})

RECURSIVE Reverse(_)
Reverse(s) == IF s = <<>> THEN <<>> ELSE Reverse(Tail(s)) \o <<Head(s)>>

\* .skip(skipAmount).limit(pageSize); limit(0) sets no limit
SkipLimit(s, skipAmount, pageSize) ==
  SubSeq(s, skipAmount + 1,
         IF pageSize = 0 THEN Len(s) ELSE Min(Len(s), skipAmount + pageSize))

SkipAmount(page, pageSize) == (page - 1) * pageSize

\* $or: [{title: {$regex}}, {content: {$regex}}], added when searchQuery is truthy
SearchMatches(doc, searchQuery) ==
  searchQuery # <<>> =>
    (RegexSearch(searchQuery, doc.title) \/ RegexSearch(searchQuery, doc.content))

\* the query object of getQuestions
QuestionsQuery(doc, searchQuery, filter) ==
  /\ SearchMatches(doc, searchQuery)
  /\ filter = "unanswered" => doc.answers = <<>>

\* .sort(sortOptions): createdAt descending, views descending (views are never
\* written by these actions, so every document ties and keeps its place), or unsorted
SortQuestions(S, filter) ==
  IF filter \in {"frequent", "unanswered"} THEN Ascending(S) ELSE Reverse(Ascending(S))

\* IsNext with >= in place of >
IsNextAtLeast(totalQuestions, skipAmount, returned) ==
  totalQuestions >= skipAmount + returned

\* const isNext = totalQuestions > skipAmount + questions.length
IsNext(totalQuestions, skipAmount, returned) == totalQuestions > skipAmount + returned

Populate(ids) == [i \in 1..Len(ids) |-> [id |-> ids[i], doc |-> questions[ids[i]]]]

\* A read action returns res.
Return(p, res) ==
  /\ result' = [result EXCEPT ![p] = res]
  /\ outcome' = [outcome EXCEPT ![p] = "ok"]
  /\ pc' = [pc EXCEPT ![p] = "idle"]
  /\ cur' = [cur EXCEPT ![p] = NoCall]
  /\ pre' = [pre EXCEPT ![p] = NoSnapshot]
  /\ UNCHANGED <<db, revalidated, hist, request>>

getQuestions(p, searchQuery, filter, page, pageSize) ==
  Begin(p, [op |-> "getQuestions", searchQuery |-> searchQuery, filter |-> filter,
            page |-> page, pageSize |-> pageSize, questions |-> <<>>],
        "gq_find", TRUE, {})

\* new RegExp(searchQuery, 'i') for a truthy searchQuery, then
\* const questions = await Question.find(query)...skip(skipAmount).limit(pageSize)
\*                                                .sort(sortOptions)
GetQuestionsFind(p) ==
  /\ pc[p] = "gq_find"
  /\ LET c == cur[p]
         matching == {q \in DOMAIN questions :
                        QuestionsQuery(questions[q], c.searchQuery, c.filter)}
         found == SkipLimit(SortQuestions(matching, c.filter),
                            SkipAmount(c.page, c.pageSize), c.pageSize)
     IN IF c.searchQuery # <<>> /\ ~ValidRegex(c.searchQuery)
        THEN Throw(p, "SyntaxError")
        ELSE /\ cur' = [cur EXCEPT ![p].questions = Populate(found)]
             /\ pc' = [pc EXCEPT ![p] = "gq_count"]
             /\ UNCHANGED <<db, outcome, result, revalidated, pre, hist, request>>

\* const totalQuestions = await Question.countDocuments(query);
\* const isNext = ...; return {questions, isNext}
GetQuestionsCount(p) ==
  /\ pc[p] = "gq_count"
  /\ LET c == cur[p]
         totalQuestions == Cardinality({q \in DOMAIN questions :
                             QuestionsQuery(questions[q], c.searchQuery, c.filter)})
     IN Return(p, [op |-> "getQuestions",
                   call |-> [searchQuery |-> c.searchQuery, filter |-> c.filter,
                             page |-> c.page, pageSize |-> c.pageSize],
                   questions |-> c.questions,
                   totalQuestions |-> totalQuestions,
                   isNext |-> IsNext(totalQuestions, SkipAmount(c.page, c.pageSize),
                                     Len(c.questions))])

getRecommendedQuestions(p, userId, page, pageSize, searchQuery) ==
  Begin(p, [op |-> "getRecommendedQuestions", userId |-> userId,
            searchQuery |-> searchQuery, page |-> page, pageSize |-> pageSize,
            user |-> "none", distinctUserTagIds |-> {}, totalQuestions |-> 0],
        "gr_connect", TRUE, {})

\* await connectToDatabase()
RecommendedConnect(p) ==
  /\ pc[p] = "gr_connect"
  /\ pc' = [pc EXCEPT ![p] = "gr_user"]
  /\ UNCHANGED <<db, cur, outcome, result, revalidated, pre, hist, request>>

\* User.findOne({clerkId: userId})
FindUserByClerkId(clerkId) == {u \in DOMAIN users : users[u].clerkId = clerkId}

\* const user = await User.findOne({clerkId: userId});
\* if (!user) throw new Error('user not found')
RecommendedUser(p) ==
  /\ pc[p] = "gr_user"
  /\ IF FindUserByClerkId(cur[p].userId) = {}
     THEN Throw(p, "user not found")
     ELSE /\ cur' = [cur EXCEPT ![p].user =
                       CHOOSE u \in FindUserByClerkId(cur[p].userId) : TRUE]
          /\ pc' = [pc EXCEPT ![p] = "gr_interactions"]
          /\ UNCHANGED <<db, outcome, result, revalidated, pre, hist, request>>

\* the tag ids of the user's interactions: reduce/concat, then [...new Set(...)]
DistinctUserTagIds(user) ==
  UNION {Range(interactions[i].tags) \cap DOMAIN tags :
           i \in {x \in DOMAIN interactions : interactions[x].user = user}}

\* const userInteractions = await Interaction.find({user: user._id})
\*   .populate('tags').exec(); userTags and distinctUserTagIds follow from it
RecommendedInteractions(p) ==
  /\ pc[p] = "gr_interactions"
  /\ cur' = [cur EXCEPT ![p].distinctUserTagIds = DistinctUserTagIds(cur[p].user)]
  /\ pc' = [pc EXCEPT ![p] = "gr_count"]
  /\ UNCHANGED <<db, outcome, result, revalidated, pre, hist, request>>

\* RecommendedQuery with $or in place of $and, so that $or holds both conditions
RecommendedQueryAnyOf(doc, user, distinctUserTagIds, searchQuery) ==
  /\ \/ Range(doc.tags) \cap distinctUserTagIds # {}
     \/ doc.author # user
  /\ SearchMatches(doc, searchQuery)

\* $and: [{tags: {$in: distinctUserTagIds}}, {author: {$ne: user._id}}], plus $or
RecommendedQuery(doc, user, distinctUserTagIds, searchQuery) ==
  /\ Range(doc.tags) \cap distinctUserTagIds # {}
  /\ doc.author # user
  /\ SearchMatches(doc, searchQuery)

\* const totalQuestions = await Question.countDocuments(query); the server
\* refuses a $regex that does not compile
RecommendedCount(p) ==
  /\ pc[p] = "gr_count"
  /\ LET c == cur[p] IN
     IF c.searchQuery # <<>> /\ ~ValidRegex(c.searchQuery)
     THEN Throw(p, "MongoError")
     ELSE /\ cur' = [cur EXCEPT ![p].totalQuestions =
                       Cardinality({q \in DOMAIN questions :
                          RecommendedQuery(questions[q], c.user, c.distinctUserTagIds,
                                           c.searchQuery)})]
          /\ pc' = [pc EXCEPT ![p] = "gr_find"]
          /\ UNCHANGED <<db, outcome, result, revalidated, pre, hist, request>>

\* const recommendedQuestions = await Question.find(query)...skip(skipAmount)
\*   .limit(pageSize); const isNext = ...; return {questions, isNext}
RecommendedFind(p) ==
  /\ pc[p] = "gr_find"
  /\ LET c == cur[p]
         skipAmount == SkipAmount(c.page, c.pageSize)
         matching == {q \in DOMAIN questions :
                        RecommendedQuery(questions[q], c.user, c.distinctUserTagIds,
                                         c.searchQuery)}
         found == SkipLimit(Ascending(matching), skipAmount, c.pageSize)
     IN Return(p, [op |-> "getRecommendedQuestions",
                   call |-> [userId |-> c.userId, searchQuery |-> c.searchQuery,
                             page |-> c.page, pageSize |-> c.pageSize],
                   user |-> c.user,
                   distinctUserTagIds |-> c.distinctUserTagIds,
                   questions |-> Populate(found),
                   totalQuestions |-> c.totalQuestions,
                   isNext |-> IsNext(c.totalQuestions, skipAmount, Len(found))])

----------------------------------------------------------------------------
(* The route middleware.  A path is the sequence of its segments: "/" is    *)
(* <<>>, "/question/1" is <<"question", "1">>.  middleware.ts holds the     *)
(* configuration; what authMiddleware does with it is the identity          *)
(* provider's, taken here from its contract: ignored routes are let through *)
(* untouched, public routes and the provider's own sign-in and sign-up      *)
(* pages are served without a session, every other request needs one.       *)

MaxSegments == 2

Segments == {"api", "trpc", "webhook", "chatgpt", "question", "tags", "profile",
             "community", "jobs", "ask-question", "sign-in", "sign-up", "_next",
             "logo.png"}

RequestPaths == UNION {[1..n -> Segments] : n \in 0..MaxSegments}

\* a pattern segment ":id" matches any one segment
SegmentMatches(pat, seg) == pat = ":id" \/ pat = seg

RouteMatches(pat, path) ==
  /\ Len(pat) = Len(path)
  /\ \A i \in 1..Len(pat) : SegmentMatches(pat[i], path[i])

publicRoutes ==
  {<<>>, <<"api", "webhook">>, <<"question", ":id">>, <<"tags">>, <<"tags", ":id">>,
   <<"profile", ":id">>, <<"community">>, <<"jobs">>}

ignoredRoutes == {<<"api", "webhook">>, <<"api", "chatgpt">>}

IsPublicRoute(path) == \E pat \in publicRoutes : RouteMatches(pat, path)
IsIgnoredRoute(path) == \E pat \in ignoredRoutes : RouteMatches(pat, path)

\* the identity provider's sign-in and sign-up pages, and the paths under them,
\* which it adds to the public routes
IsSignInOrSignUp(path) == Len(path) >= 1 /\ path[1] \in {"sign-in", "sign-up"}

HasDot(seg) == seg = "logo.png"

\* config.matcher: '/((?!.*\\..*|_next).*)', '/', '/(api|trpc)(.*)'
matcher(path) ==
  \/ /\ \A i \in 1..Len(path) : ~HasDot(path[i])
     /\ ~(Len(path) >= 1 /\ path[1] = "_next")
  \/ path = <<>>
  \/ Len(path) >= 1 /\ path[1] \in {"api", "trpc"}

\* what becomes of a request: "next" (handled by the route) or "sign-in" (no
\* session: redirected to the sign-in page, or refused)
authMiddleware(path, signedIn) ==
  IF ~matcher(path) THEN "next"
  ELSE IF IsIgnoredRoute(path) THEN "next"
  ELSE IF IsPublicRoute(path) \/ IsSignInOrSignUp(path) \/ signedIn THEN "next"
  ELSE "sign-in"

\* The middleware keeps nothing between two requests, so each request is taken
\* from the state in which none has been made.
Request(path, signedIn) ==
  /\ request = NoRequest
  /\ request' = [path |-> path, signedIn |-> signedIn,
                 response |-> authMiddleware(path, signedIn)]
  /\ UNCHANGED <<db, pc, cur, outcome, result, revalidated, pre, hist>>

----------------------------------------------------------------------------
(* Specifications *)

QuestionIds == 1..(MaxCalls + 1)

\* the steps of createQuestion
CreateSteps(p) ==
  \/ CreateQuestionDoc(p)
  \/ CreateQuestionTag(p)
  \/ CreateQuestionLink(p)
  \/ CreateQuestionInteraction(p)
  \/ CreateQuestionReputation(p)

\* the steps of deleteQuestion
DeleteSteps(p) ==
  \/ DeleteQuestionDoc(p)
  \/ DeleteQuestionAnswers(p)
  \/ DeleteQuestionInteractions(p)
  \/ DeleteQuestionTags(p)

\* the steps of editQuestion
EditSteps(p) ==
  \/ EditQuestionFind(p)
  \/ EditQuestionSave(p)

\* the steps of getQuestions and getRecommendedQuestions
ReadSteps(p) ==
  \/ GetQuestionsFind(p)
  \/ GetQuestionsCount(p)
  \/ RecommendedConnect(p)
  \/ RecommendedUser(p)
  \/ RecommendedInteractions(p)
  \/ RecommendedCount(p)
  \/ RecommendedFind(p)

\* the questions a call is aimed at: the stored one, and the one created next
Targets == {1, 2}

\* createQuestion, deleteQuestion, editQuestion and answers, overlapping, any
\* database call of which may fail; a behaviour has at most MaxCalls calls
Next ==
  \E p \in Procs :
    \/ /\ hist.calls < MaxCalls
       /\ \/ \E tagNames \in TagLists :
               createQuestion(p, <<"r">>, <<"u">>, tagNames, "u2", "/")
          \/ \E q \in Targets : deleteQuestion(p, q, "/")
          \/ \E q \in Targets : editQuestion(p, q, <<"c", "c">>, <<"r">>, "/e")
          \/ createAnswer(p, 2, "u2")
    \/ CreateSteps(p)
    \/ DeleteSteps(p)
    \/ EditSteps(p)
    \/ Revalidate(p)
    \/ DbFailure(p)

Spec == Init /\ [][Next]_vars

\* votes on the stored question with any flags, and on an id that matches none
NextVote ==
  \E p \in Procs :
    \/ /\ hist.calls < MaxVoteCalls
       /\ \E u \in Users :
            \/ \E hasupVoted \in BOOLEAN, hasdownVoted \in BOOLEAN :
                 \/ upvoteQuestion(p, 1, u, hasupVoted, hasdownVoted, "/")
                 \/ downvoteQuestion(p, 1, u, hasupVoted, hasdownVoted, "/")
            \/ upvoteQuestion(p, 2, u, FALSE, FALSE, "/")
            \/ downvoteQuestion(p, 2, u, FALSE, FALSE, "/")
    \/ VoteUpdate(p)
    \/ VoteActor(p)
    \/ VoteAuthor(p)
    \/ Revalidate(p)
    \/ DbFailure(p)

SpecVote == Init /\ [][NextVote]_vars

\* votes on the stored question called as the page calls them, with the flags of
\* the vote the question holds for the user when the call is made, no database
\* call failing
NextFaithful ==
  \E p \in Procs :
    \/ /\ hist.calls < MaxFaithfulVotes
       /\ \E u \in Users :
            LET hasupVoted == HasUp(questions[1], u)
                hasdownVoted == HasDown(questions[1], u)
            IN \/ upvoteQuestion(p, 1, u, hasupVoted, hasdownVoted, "/")
               \/ downvoteQuestion(p, 1, u, hasupVoted, hasdownVoted, "/")
    \/ VoteUpdate(p)
    \/ VoteActor(p)
    \/ VoteAuthor(p)
    \/ Revalidate(p)

SpecFaithful == Init /\ [][NextFaithful]_vars

\* A database of three questions: the stored one, then "cc" asked by u2 with tag
\* "rust" and "cc" asked by u1 with tag "c+", as createQuestion leaves them.
InitRead ==
  /\ questions =
       (1 :> [title |-> <<"r">>, content |-> <<"u">>, author |-> "u1",
              tags |-> <<1>>, upvotes |-> <<>>, downvotes |-> <<>>,
              answers |-> <<1>>, views |-> 0]) @@
       (2 :> [title |-> <<"c", "c">>, content |-> <<"u">>, author |-> "u2",
              tags |-> <<1>>, upvotes |-> <<>>, downvotes |-> <<>>,
              answers |-> <<>>, views |-> 0]) @@
       (3 :> [title |-> <<"c", "c">>, content |-> <<"u">>, author |-> "u1",
              tags |-> <<2>>, upvotes |-> <<>>, downvotes |-> <<>>,
              answers |-> <<>>, views |-> 0])
  /\ tags = <<[name |-> Rust, questions |-> <<1, 2>>],
              [name |-> cplus, questions |-> <<3>>]>>
  /\ answers = (1 :> [question |-> 1, author |-> "u2"])
  /\ interactions =
       (1 :> [user |-> "u1", action |-> "ask_question", question |-> 1,
              tags |-> <<1>>]) @@
       (2 :> [user |-> "u2", action |-> "ask_question", question |-> 2,
              tags |-> <<1>>]) @@
       (3 :> [user |-> "u1", action |-> "ask_question", question |-> 3,
              tags |-> <<2>>])
  /\ users = [u \in Users |->
                [clerkId |-> ClerkIdOf(u), reputation |-> IF u = "u1" THEN 10 ELSE 5]]
  /\ nextId = [question |-> 4, answer |-> 2, interaction |-> 4]
  /\ NoCalls

\* the positions at which a read action awaits the database
ReadCallPcs == {"gq_find", "gq_count",
                "gr_connect", "gr_user", "gr_interactions", "gr_count", "gr_find"}

\* A read action among the writes that overlap it.  A read leaves the database
\* as it is, so what it returns does not depend on the reads made before it: a
\* behaviour follows one read, and no call is started once it has returned.
\* Any database call of the read may fail; the writes run to their end (their
\* failures are followed under Spec).
NextRead ==
  \E p \in Procs :
    \/ /\ hist.calls < MaxReadCalls
       /\ \A o \in Procs : result[o] = NoResult
       /\ \/ createQuestion(p, <<"c", "c">>, <<"u">>, <<rust>>, "u2", "/")
          \/ deleteQuestion(p, 1, "/")
          \/ /\ ~hist.read
             /\ \/ \E searchQuery \in Searches, filter \in Filters,
                       page \in 1..MaxPage, pageSize \in 0..MaxPageSize :
                      getQuestions(p, searchQuery, filter, page, pageSize)
                \/ \E userId \in ClerkIds, searchQuery \in Searches,
                       page \in 1..MaxPage, pageSize \in 0..MaxPageSize :
                      getRecommendedQuestions(p, userId, page, pageSize, searchQuery)
    \/ CreateSteps(p)
    \/ DeleteSteps(p)
    \/ Revalidate(p)
    \/ ReadSteps(p)
    \/ pc[p] \in ReadCallPcs /\ DbFailure(p)

SpecRead == InitRead /\ [][NextRead]_vars

\* requests through the middleware
NextAuth == \E path \in RequestPaths, signedIn \in BOOLEAN : Request(path, signedIn)

SpecAuth == Init /\ [][NextAuth]_vars

----------------------------------------------------------------------------
(* Claims about voting, checked under SpecVote and SpecFaithful *)

\* C1: for every sequence of upvoteQuestion and downvoteQuestion calls with
\* caller-supplied flags, no user is in both the upvotes and the downvotes of a
\* question (stated for the runs in which no call fails and none overlaps another).
C1_NeverBothVotes ==
  (~hist.failed /\ ~hist.overlapped) =>
    \A q \in DOMAIN questions : \A u \in Users :
      ~(HasUp(questions[q], u) /\ HasDown(questions[q], u))

\* the reputation of every user once the writes of the call of slot p are done,
\* had the actor gained dActor and the author dAuthor since the call started
ReputationMovedBy(p, dActor, dAuthor) ==
  \A w \in Users :
    users[w].reputation =
      pre[p].users[w].reputation + (IF w = cur[p].userId THEN dActor ELSE 0)
                                 + (IF w = cur[p].author THEN dAuthor ELSE 0)

\* slot p serves an upvote for a user who held a downvote, and only a downvote,
\* on an existing question when the call started, and no other call overlaps it
SwapToUpvote(p) ==
  /\ pc[p] \in {"vote_update", "vote_actor", "vote_author", "vote_revalidate"}
  /\ hist.alone[p]
  /\ cur[p].op = "upvote"
  /\ cur[p].hasdownVoted /\ ~cur[p].hasupVoted
  /\ cur[p].questionId \in DOMAIN pre[p].questions
  /\ HasDown(pre[p].questions[cur[p].questionId], cur[p].userId)
  /\ ~HasUp(pre[p].questions[cur[p].questionId], cur[p].userId)

\* C2: upvoting a question the user had downvoted moves the user from downvotes to
\* upvotes in one update (never in both, never in neither), and the reputation of
\* actor and author changes by the sum of a downvote retraction (-2, -10) and a
\* fresh upvote (+1, +10) (stated for the runs in which no call fails).
C2_SwapReputation ==
  \A p \in Procs :
    (SwapToUpvote(p) /\ ~hist.failed) =>
      /\ HasUp(questions[cur[p].questionId], cur[p].userId)
           # HasDown(questions[cur[p].questionId], cur[p].userId)
      /\ pc[p] = "vote_revalidate" =>
           ReputationMovedBy(p, DownvoteActorDelta(TRUE) + UpvoteActorDelta(FALSE),
                             DownvoteAuthorDelta(TRUE) + UpvoteAuthorDelta(FALSE))

\* C9: an action stops at its first failing step: that step writes nothing, the
\* error reaches the caller, revalidatePath is not called and the writes made
\* before stay; the slot does nothing more until a new call is made; a vote on
\* an id that matches no question fails at its first step, which changes no
\* reputation and no vote set.
C9_AbortOnFailure ==
  [][ \A p \in Procs :
        /\ (pc[p] # "idle" /\ IsError(outcome'[p])) =>
              /\ pc'[p] = "idle" /\ cur'[p] = NoCall
              /\ db' = db /\ revalidated' = revalidated
        /\ (pc[p] = "idle" /\ pc'[p] # "idle") =>
              /\ hist'.calls = hist.calls + 1
              /\ db' = db /\ revalidated' = revalidated
        /\ (pc[p] = "vote_update" /\ pc'[p] # "vote_update"
              /\ QuestionMissing(cur[p].questionId)) =>
              /\ IsError(outcome'[p]) /\ pc'[p] = "idle"
              /\ db' = db /\ revalidated' = revalidated
    ]_vars

\* a vote on an id that matches no question has failed, and every reputation
\* and vote set is as the database was built
C9_Witness ==
  \E p \in Procs :
    /\ outcome[p] = "Question not found"
    /\ pc[p] = "idle"
    /\ hist.calls = 1
    /\ questions[1].upvotes = <<>> /\ questions[1].downvotes = <<>>
    /\ \A w \in Users : users[w].reputation = (IF w = "u1" THEN 5 ELSE 0)

\* C10: after votes by one user on one question, each called with the flags of the
\* stored vote, none failing and none overlapping another, a user who holds no
\* vote finds the reputations of actor and author as they were before the votes.
C10_ReputationFollowsVote ==
  ( /\ \A p \in Procs : pc[p] = "idle"
    /\ hist.faithful /\ ~hist.failed /\ ~hist.overlapped
    /\ Cardinality(hist.voters) <= 1
    /\ \A u \in hist.voters : ~HasUp(questions[1], u) /\ ~HasDown(questions[1], u) )
  => \A w \in Users : users[w].reputation = (IF w = "u1" THEN 5 ELSE 0)

----------------------------------------------------------------------------
(* Claims about createQuestion and deleteQuestion, checked under Spec *)

LowerName(name) == [i \in 1..Len(name) |-> Lower(name[i])]

\* C3: no two Tag documents have names that are equal ignoring letter case: a
\* createQuestion whose tag differs from a stored name in letter case only links
\* to the stored Tag document (stated for the runs in which no call fails and none
\* overlaps another, and for names that are not the same string, which a unique
\* index on name would refuse).
C3_TagNamesUnique ==
  (~hist.failed /\ ~hist.overlapped) =>
    \A t1 \in DOMAIN tags : \A t2 \in DOMAIN tags :
      (t1 # t2 /\ tags[t1].name # tags[t2].name)
        => LowerName(tags[t1].name) # LowerName(tags[t2].name)

\* how many times x occurs in the array s
Occurrences(s, x) == Cardinality({i \in 1..Len(s) : s[i] = x})

\* C4: once the writes of a deleteQuestion(q) that no other call overlaps are done
\* without a failure, whatever calls were made before it, q is gone, no Answer and
\* no Interaction references q, no Tag lists q, and the questions, answers,
\* interactions, tag names and tag references of other questions are as they were
\* when the call started.
C4_DeleteCascades ==
  \A p \in Procs :
    (pc[p] = "dq_revalidate" /\ hist.alone[p]) =>
      LET q == cur[p].questionId
          was == pre[p]
      IN
      /\ q \notin DOMAIN questions
      /\ \A a \in DOMAIN answers : answers[a].question # q
      /\ \A i \in DOMAIN interactions : interactions[i].question # q
      /\ \A t \in DOMAIN tags : q \notin Range(tags[t].questions)
      /\ \A o \in DOMAIN was.questions \ {q} :
           o \in DOMAIN questions /\ questions[o] = was.questions[o]
      /\ \A a \in DOMAIN was.answers :
           was.answers[a].question # q =>
             a \in DOMAIN answers /\ answers[a] = was.answers[a]
      /\ \A i \in DOMAIN was.interactions :
           was.interactions[i].question # q =>
             i \in DOMAIN interactions /\ interactions[i] = was.interactions[i]
      /\ DOMAIN tags = DOMAIN was.tags
      /\ \A t \in DOMAIN tags :
           /\ tags[t].name = was.tags[t].name
           /\ \A o \in QuestionIds \ {q} :
                Occurrences(tags[t].questions, o) = Occurrences(was.tags[t].questions, o)
      /\ users = was.users

\* a question with an answer, an interaction and a tag shared with another
\* question has been deleted by a call that no other call overlapped
C4_Witness ==
  \E p \in Procs :
    /\ pc[p] = "dq_revalidate" /\ hist.alone[p]
    /\ cur[p].questionId \in DOMAIN pre[p].questions
    /\ \E a \in DOMAIN pre[p].answers : pre[p].answers[a].question = cur[p].questionId
    /\ \E i \in DOMAIN pre[p].interactions :
         pre[p].interactions[i].question = cur[p].questionId
    /\ \E t \in DOMAIN pre[p].tags :
         /\ cur[p].questionId \in Range(pre[p].tags[t].questions)
         /\ \E o \in DOMAIN questions : o \in Range(tags[t].questions)

\* C8: when no action is in progress, after calls none of which failed or
\* overlapped another, a tag is among a question's tags exactly when the question
\* is in the tag's questions, and no tag lists a question that does not exist.
C8_LinksBothWays ==
  ( /\ \A p \in Procs : pc[p] = "idle"
    /\ ~hist.failed /\ ~hist.overlapped ) =>
    /\ \A q \in DOMAIN questions : \A t \in DOMAIN tags :
         t \in Range(questions[q].tags) <=> q \in Range(tags[t].questions)
    /\ \A t \in DOMAIN tags : Range(tags[t].questions) \subseteq DOMAIN questions

\* question 2 was created with the stored tag and a new tag "c+", then deleted,
\* one call after the other and none failing
C8_Witness ==
  /\ \A p \in Procs : pc[p] = "idle"
  /\ ~hist.failed /\ ~hist.overlapped
  /\ nextId.question = 3 /\ 2 \notin DOMAIN questions
  /\ Len(tags) = 2 /\ tags[2].name = cplus /\ tags[2].questions = <<>>
  /\ tags[1].questions = <<1>> /\ questions[1].tags = <<1>>

----------------------------------------------------------------------------
(* Claims about the read actions, checked under SpecRead *)

\* the user documents with the given clerkId
WithClerkId(clerkId) == {u \in Users : users[u].clerkId = clerkId}

\* C5: every question getRecommendedQuestions returns is authored by someone
\* other than the requesting user and carries a tag that the call found in one
\* of that user's Interaction records, with or without a search text; when no
\* other call overlaps the read, the tag occurs in one of the user's Interaction
\* records of the database the read leaves.
C5_RecommendedAreOthersWithSharedTag ==
  \A p \in Procs :
    result[p].op = "getRecommendedQuestions" =>
      \A k \in 1..Len(result[p].questions) :
        LET d == result[p].questions[k].doc IN
        /\ d.author \notin WithClerkId(result[p].call.userId)
        /\ Range(d.tags) \cap result[p].distinctUserTagIds # {}
        /\ hist.alone[p] =>
             \E t \in Range(d.tags) : \E i \in DOMAIN interactions :
               /\ interactions[i].user \in WithClerkId(result[p].call.userId)
               /\ t \in Range(interactions[i].tags)

\* a search that no other call overlapped returned a recommendation while the
\* user has a question of their own that the search text matches too
C5_Witness ==
  \E p \in Procs :
    /\ result[p].op = "getRecommendedQuestions"
    /\ hist.alone[p]
    /\ result[p].call.searchQuery # <<>>
    /\ Len(result[p].questions) >= 1
    /\ \E q \in DOMAIN questions :
         /\ questions[q].author \in WithClerkId(result[p].call.userId)
         /\ SearchMatches(questions[q], result[p].call.searchQuery)

\* the questions of the database that the query of the read of slot p selects
MatchingOfResult(p) ==
  IF result[p].op = "getQuestions"
  THEN {q \in DOMAIN questions :
          QuestionsQuery(questions[q], result[p].call.searchQuery,
                         result[p].call.filter)}
  ELSE {q \in DOMAIN questions :
          RecommendedQuery(questions[q], result[p].user,
                           result[p].distinctUserTagIds, result[p].call.searchQuery)}

\* C6: isNext is true exactly when the number of matching questions the call
\* counted exceeds skipAmount + the number returned, skipAmount = (page - 1) *
\* pageSize; when no other call overlaps the read, the count is the number of
\* matching questions of the database, and isNext is true exactly when a
\* matching question lies after the returned page.
C6_IsNextIffMore ==
  \A p \in Procs :
    result[p].op \in ReadOps =>
      LET total == Cardinality(MatchingOfResult(p))
          skip == (result[p].call.page - 1) * result[p].call.pageSize
          returned == Len(result[p].questions)
          skipped == IF skip < total THEN skip ELSE total
      IN /\ result[p].isNext <=> (result[p].totalQuestions > skip + returned)
         /\ hist.alone[p] =>
              /\ result[p].totalQuestions = total
              /\ result[p].isNext <=> (total - skipped - returned > 0)
              /\ returned = (IF result[p].call.pageSize = 0 THEN total - skipped
                             ELSE Min(result[p].call.pageSize, total - skipped))

\* a second page was read by a call that no other call overlapped, and a third
\* page exists
C6_Witness ==
  \E p \in Procs :
    /\ result[p].op = "getQuestions"
    /\ hist.alone[p]
    /\ result[p].call.page = 2
    /\ Len(result[p].questions) = 1
    /\ result[p].isNext

----------------------------------------------------------------------------
(* Claims about the middleware, checked under SpecAuth *)

\* the path is one the public-route allow-list names
OnAllowList(path) ==
  \/ path = <<>>
  \/ path \in {<<"api", "webhook">>, <<"tags">>, <<"community">>, <<"jobs">>}
  \/ Len(path) = 2 /\ path[1] \in {"question", "tags", "profile"}

\* the path of a page or an API route of the application: no segment has a dot,
\* none starts with _next, and it is not a sign-in or sign-up page of the
\* identity provider
PageOrApiPath(path) ==
  /\ \A i \in 1..Len(path) : path[i] \notin {"logo.png", "_next"}
  /\ ~(Len(path) >= 1 /\ path[1] \in {"sign-in", "sign-up"})

\* C7: a request is let through without a session only if its path matches a
\* pattern of the public-route allow-list (stated for the pages and API routes
\* of the application).
C7_OnlyPublicBypass ==
  (request.response = "next" /\ ~request.signedIn /\ PageOrApiPath(request.path))
    => OnAllowList(request.path)

====
